---- MODULE Spec2Model ----
(***************************************************************************)
(* Model of SettingsChannel (packages/http/config/features/channels/       *)
(* settings.channel.ts): the conditional-request middleware, its ETag      *)
(* comparators and its Last-Modified fallback.                             *)
(*                                                                         *)
(* Strings that the code takes apart (ETag header values) are sequences of *)
(* one-character strings; strings the code only hands to Date or stores    *)
(* (dates, bodies, content types) are TLA+ strings.                        *)
(***************************************************************************)
EXTENDS Integers, Sequences, FiniteSets, TLC

VARIABLES ctx, clientValidation, pc, config, serverETag, request, produced,
          clientRaw, serverTag, called, resultPublic, resultEngine

\* ctx               the HttpContext of the request: method, host, subdomains,
\*                   status, body and the header map
\* clientValidation  the snapshot { etag, modifiedSince } taken before next()
\* pc                where the middleware is: start, next, after, done (idle
\*                   when only the comparators are exercised)
\* config            strength and algorithm fixed by the constructor, and the
\*                   settings the middleware reads (poweredBy, subdomainOffset)
\* serverETag        the tag handleCacheValidation generated, undefined before
\* request           history: ctx as the request arrived
\* produced          history: ctx as await next() left it
\* clientRaw, serverTag        arguments handed to the comparators
\* called                      which comparators have returned
\* resultPublic, resultEngine  what compareETags and the engine's path returned
vars == <<ctx, clientValidation, pc, config, serverETag, request, produced,
          clientRaw, serverTag, called, resultPublic, resultEngine>>

engineVars == <<ctx, clientValidation, pc, config, serverETag, request, produced>>

cmpVars == <<clientRaw, serverTag, called, resultPublic, resultEngine>>

----------------------------------------------------------------------------
(* Bounds of the model *)

\* longest client tag list that is enumerated (If-None-Match of a request,
\* client value handed to a comparator)
MaxTags == 2

\* longest opaque identifier that is enumerated for the comparators
MaxIdLen == 1

----------------------------------------------------------------------------
(* JavaScript values *)

DQ == "\""

\* undefined / a defined value, for values that are character sequences
NoSeq == [has |-> FALSE, val |-> <<>>]

\* undefined / a defined value, for values that are plain strings
NoStr == [has |-> FALSE, val |-> ""]

Some(v) == [has |-> TRUE, val |-> v]

\* truthiness of an optional character-sequence string
TruthySeq(v) == v.has /\ Len(v.val) > 0

\* truthiness of an optional plain string
TruthyStr(v) == v.has /\ v.val # ""

\* String.prototype.includes for one character
Includes(s, c) == \E i \in 1..Len(s) : s[i] = c

\* index of the first occurrence of c in s, 0 when there is none
RECURSIVE IndexOf(_, _, _)
IndexOf(s, c, from) ==
  IF from > Len(s) THEN 0
  ELSE IF s[from] = c THEN from
  ELSE IndexOf(s, c, from + 1)

\* String.prototype.split(','): "" gives [""], "a," gives ["a", ""]
RECURSIVE Split(_, _)
Split(s, c) ==
  LET i == IndexOf(s, c, 1)
  IN IF i = 0 THEN <<s>>
     ELSE <<SubSeq(s, 1, i - 1)>> \o Split(SubSeq(s, i + 1, Len(s)), c)

RECURSIVE TrimStart(_)
TrimStart(s) ==
  IF Len(s) > 0 /\ s[1] = " " THEN TrimStart(Tail(s)) ELSE s

RECURSIVE TrimEnd(_)
TrimEnd(s) ==
  IF Len(s) > 0 /\ s[Len(s)] = " " THEN TrimEnd(SubSeq(s, 1, Len(s) - 1)) ELSE s

\* String.prototype.trim
Trim(s) == TrimEnd(TrimStart(s))

\* .split(',').map((t) => t.trim())
SplitTrim(s) ==
  LET parts == Split(s, ",")
  IN [i \in 1..Len(parts) |-> Trim(parts[i])]

\* .replace(/"/g, '')
StripQuotes(s) == SelectSeq(s, LAMBDA ch : ch # DQ)

----------------------------------------------------------------------------
(* The comparators *)

\* etag.replace(/^W\//i, '').replace(/"/g, '')
normalizeETag(etag) ==
  StripQuotes(IF Len(etag) >= 2 /\ etag[1] \in {"W", "w"} /\ etag[2] = "/"
              THEN SubSeq(etag, 3, Len(etag)) ELSE etag)

\* etag.replace(/^W\//, '').replace(/"/g, '')
normalize(etag) ==
  StripQuotes(IF Len(etag) >= 2 /\ etag[1] = "W" /\ etag[2] = "/"
              THEN SubSeq(etag, 3, Len(etag)) ELSE etag)

\* clientETags.some(t => t === '*' || normalizeETag(t) === normalizeETag(serverETag))
anyETagMatches(clientETags, sTag) ==
  \E i \in 1..Len(clientETags) :
     \/ clientETags[i] = <<"*">>
     \/ normalizeETag(clientETags[i]) = normalizeETag(sTag)

\* the ETag validation of handleCacheValidation: a truthy If-None-Match value
\* is split on commas, each element trimmed, and handed to anyETagMatches
ifNoneMatchMatches(etag, sTag) ==
  TruthySeq(etag) /\ anyETagMatches(SplitTrim(etag.val), sTag)

\* the public comparator; a list is decomposed and each element compared again
RECURSIVE compareETags(_, _)
compareETags(clientETag, sTag) ==
  IF Len(clientETag) = 0 \/ Len(sTag) = 0 THEN FALSE
  ELSE IF clientETag = <<"*">> THEN TRUE
  ELSE IF Includes(clientETag, ",")
       THEN LET tags == SplitTrim(clientETag)
            IN \E i \in 1..Len(tags) : compareETags(tags[i], sTag)
  ELSE normalize(clientETag) = normalize(sTag)

----------------------------------------------------------------------------
(* Collaborators of the channel *)

\* ctx.header.get(name): the stored value, undefined when the header is not set
HeaderGet(h, name) == h[name]

\* ctx.header.set(name, value)
HeaderSet(h, name, v) == [h EXCEPT ![name] = Some(v)]

\* ctx.header.remove(name), for the two plain-string headers the channel removes
HeaderRemove(h, name) == [h EXCEPT ![name] = NoStr]

\* lowercase hex digest of the content under the named algorithm
HexDigest(alg, content) ==
  << CASE alg = "sha256" -> "2" [] alg = "md5" -> "5" [] alg = "sha1" -> "1",
     CASE content = "" -> "e" [] content = "hello" -> "a" [] content = "world" -> "b" >>

\* generateETag(body, algorithm, strength): "<hex>" or W/"<hex>"
generateETag(body, alg, str) ==
  LET hex == HexDigest(alg, IF body.has THEN body.val ELSE "")
  IN (IF str = "weak" THEN <<"W", "/">> ELSE <<>>) \o <<DQ>> \o hex \o <<DQ>>

\* new Date(s).getTime() in whole seconds, NaN for a string that is not a date
DateGetTime(s) ==
  CASE s = "Thu, 01 Jan 1970 00:00:00 GMT" -> [nan |-> FALSE, t |-> 0]
    [] s = "Tue, 31 Dec 2019 00:00:00 GMT" -> [nan |-> FALSE, t |-> 1577750400]
    [] s = "Wed, 01 Jan 2020 00:00:00 GMT" -> [nan |-> FALSE, t |-> 1577836800]
    [] s = "Thu, 02 Jan 2020 00:00:00 GMT" -> [nan |-> FALSE, t |-> 1577923200]
    [] OTHER -> [nan |-> TRUE, t |-> 0]

----------------------------------------------------------------------------
(* SettingsChannel *)

\* null, the result of parseDate for an invalid date
NullDate == [has |-> FALSE, val |-> 0]

\* parseDate that lets an invalid date through as the epoch
parseDateLenient(dateString) ==
  LET time == DateGetTime(dateString)
  IN Some(time.t)

\* const date = new Date(dateString); isNaN(date.getTime()) ? null : date
parseDate(dateString) ==
  LET time == DateGetTime(dateString)
  IN IF time.nan THEN NullDate ELSE Some(time.t)

\* sendNotModified that leaves content-length in place
sendNotModifiedKeepLength(c) ==
  [c EXCEPT !.status = 304,
            !.body = NoStr,
            !.header = HeaderRemove(c.header, "content-type")]

\* sendNotModified that also drops the etag header
sendNotModifiedDropETag(c) ==
  [c EXCEPT !.status = 304,
            !.body = NoStr,
            !.header = [HeaderRemove(HeaderRemove(c.header, "content-type"),
                                     "content-length") EXCEPT !["etag"] = NoSeq]]

\* status 304, body null, content-type and content-length removed
sendNotModified(c) ==
  [c EXCEPT !.status = 304,
            !.body = NoStr,
            !.header = HeaderRemove(HeaderRemove(c.header, "content-type"),
                                    "content-length")]

\* shouldProcessValidation without the test for an existing etag header
shouldProcessValidationNoETagTest(c) ==
  /\ c.method = "GET" \/ c.method = "HEAD"
  /\ c.status >= 200
  /\ c.status < 300
  /\ TruthyStr(c.body)

\* GET or HEAD, status in [200,300), truthy body, no truthy etag header
shouldProcessValidation(c) ==
  /\ c.method = "GET" \/ c.method = "HEAD"
  /\ c.status >= 200
  /\ c.status < 300
  /\ TruthyStr(c.body)
  /\ ~TruthySeq(HeaderGet(c.header, "etag"))

\* the Last-Modified test with a strict comparison
lastModifiedMatchesStrict(c, cv) ==
  /\ TruthyStr(cv.modifiedSince)
  /\ LET lastModifiedHeader == HeaderGet(c.header, "last-modified")
     IN /\ TruthyStr(lastModifiedHeader)
        /\ LET lastModified == parseDate(lastModifiedHeader.val)
               modifiedSince == parseDate(cv.modifiedSince.val)
           IN lastModified.has /\ modifiedSince.has
              /\ lastModified.val < modifiedSince.val

\* the Last-Modified test of handleCacheValidation
lastModifiedMatches(c, cv) ==
  /\ TruthyStr(cv.modifiedSince)
  /\ LET lastModifiedHeader == HeaderGet(c.header, "last-modified")
     IN /\ TruthyStr(lastModifiedHeader)
        /\ LET lastModified == parseDate(lastModifiedHeader.val)
               modifiedSince == parseDate(cv.modifiedSince.val)
           IN lastModified.has /\ modifiedSince.has
              /\ lastModified.val <= modifiedSince.val

\* handleCacheValidation in which a matching ETag still has to pass the date test
handleCacheValidationDateVeto(c, cv) ==
  LET tag == generateETag(c.body, config.algorithm, config.strength)
      tagged == [c EXCEPT !.header = HeaderSet(c.header, "etag", tag)]
      dated == TruthyStr(cv.modifiedSince) /\ TruthyStr(HeaderGet(c.header, "last-modified"))
  IN [serverETag |-> tag,
      ctx |-> IF ifNoneMatchMatches(cv.etag, tag) /\ (dated => lastModifiedMatches(tagged, cv))
                THEN sendNotModified(tagged)
              ELSE IF lastModifiedMatches(tagged, cv)
                THEN sendNotModified(tagged)
              ELSE tagged]

\* handleCacheValidation: the context it leaves and the tag it generated
handleCacheValidation(c, cv) ==
  LET tag == generateETag(c.body, config.algorithm, config.strength)
      tagged == [c EXCEPT !.header = HeaderSet(c.header, "etag", tag)]
  IN [serverETag |-> tag,
      ctx |-> IF ifNoneMatchMatches(cv.etag, tag)
                THEN sendNotModified(tagged)
              ELSE IF lastModifiedMatches(tagged, cv)
                THEN sendNotModified(tagged)
              ELSE tagged]

\* value of a run of decimal digits (parseInt(part, 10)), -1 for any other token
DecimalValue(tok) ==
  CASE tok = "0" -> 0 [] tok = "1" -> 1 [] tok = "127" -> 127 [] tok = "999" -> 999
    [] OTHER -> -1

\* /^(\d{1,3})\.(\d{1,3})\.(\d{1,3})\.(\d{1,3})$/ and every part in 0..255;
\* otherwise /^([0-9a-fA-F]{1,4}:){7}[0-9a-fA-F]{1,4}$/, eight groups split by colons
isIPAddress(str) ==
  LET parts == Split(str, ".")
      groups == Split(str, ":")
      isDigits(p) == Len(p) = 1 /\ DecimalValue(p[1]) >= 0
      isHexGroup(p) == Len(p) = 1 /\ p[1] \in {"0", "1", "fe80"}
  IN IF Len(parts) = 4 /\ \A i \in 1..4 : isDigits(parts[i])
       THEN \A i \in 1..4 : DecimalValue(parts[i][1]) >= 0 /\ DecimalValue(parts[i][1]) <= 255
       ELSE Len(groups) = 8 /\ \A i \in 1..8 : isHexGroup(groups[i])

\* Array.prototype.slice(0, end), a negative end counting from the back
SliceTo(a, end) ==
  LET e == IF end < 0 THEN (IF Len(a) + end < 0 THEN 0 ELSE Len(a) + end)
           ELSE (IF end > Len(a) THEN Len(a) ELSE end)
  IN SubSeq(a, 1, e)

Reverse(a) == [i \in 1..Len(a) |-> a[Len(a) + 1 - i]]

\* _getSubdomains: [] for a nil host or an IP address, else the reversed
\* leading segments of the host name
getSubdomains(c) ==
  IF ~c.host.has THEN <<>>
  ELSE LET hostname == Split(c.host.val, ":")[1]
       IN IF isIPAddress(hostname) THEN <<>>
          ELSE LET segments == Split(hostname, ".")
               IN Reverse(SliceTo(segments, Len(segments) - config.subdomainOffset))

----------------------------------------------------------------------------
(* Requests, responses and configurations that are enumerated *)

Weak(t) == <<"W", "/">> \o t

Quoted(id) == <<DQ>> \o id \o <<DQ>>

\* a list of tags written as one comma-separated header value
RECURSIVE Join(_)
Join(list) ==
  IF Len(list) = 1 THEN list[1]
  ELSE list[1] \o <<",">> \o Join(Tail(list))

\* the header values that are lists of 1..n of the given elements
ListsOf(elements, n) ==
  { Join(list) : list \in UNION { [1..k -> elements] : k \in 1..n } }

\* the settings sections a channel is constructed from
Settings ==
  { [etag |-> NoStr, poweredBy |-> Some("Gland"), subdomainOffset |-> 2],
    [etag |-> Some([strength |-> Some("weak"), algorithm |-> Some("md5")]),
     poweredBy |-> NoStr, subdomainOffset |-> 2],
    [etag |-> Some([strength |-> NoStr, algorithm |-> Some("sha1")]),
     poweredBy |-> Some(""), subdomainOffset |-> 1] }

\* request methods with the Host header they arrive with; a host is a
\* sequence of tokens, the separators . and : being tokens of their own
RequestLines ==
  { [method |-> "GET", host |-> Some(<<"api", ".", "v1", ".", "example", ".", "com", ":", "3000">>)],
    [method |-> "HEAD", host |-> Some(<<"127", ".", "0", ".", "0", ".", "1">>)],
    [method |-> "POST", host |-> NoSeq] }

\* elements of an If-None-Match list: the md5 tag of "hello" as a strong tag,
\* the sha256 tag of "hello" as a lower-case weak tag after a space
IfNoneMatchElements ==
  { Quoted(<<"5", "a">>), <<" ", "w", "/">> \o Quoted(<<"2", "a">>) }

\* If-None-Match values of arriving requests: none, empty, the wildcard, and
\* lists of 1..MaxTags elements
IfNoneMatchValues ==
  { NoSeq, Some(<<>>), Some(<<"*">>) } \cup
  { Some(value) : value \in ListsOf(IfNoneMatchElements, MaxTags) }

\* If-Modified-Since values of arriving requests
IfModifiedSinceValues ==
  { NoStr, Some(""), Some("not-a-date"),
    Some("Wed, 01 Jan 2020 00:00:00 GMT"),
    Some("Thu, 01 Jan 1970 00:00:00 GMT") }

\* Last-Modified values a downstream handler sets
LastModifiedValues ==
  { NoStr, Some("not-a-date"),
    Some("Tue, 31 Dec 2019 00:00:00 GMT"),
    Some("Wed, 01 Jan 2020 00:00:00 GMT"),
    Some("Thu, 02 Jan 2020 00:00:00 GMT"),
    Some("Thu, 01 Jan 1970 00:00:00 GMT") }

\* etag headers a downstream handler sets itself
DownstreamETags == { NoSeq, Some(<<>>), Some(Quoted(<<"c", "0">>)) }

Statuses == { 199, 200, 299, 300, 404 }

Bodies == { NoStr, Some(""), Some("hello"), Some("world") }

\* what a downstream handler does to the request's validator headers
ValidatorEdits == { "keep", "remove", "replace" }

HeaderNames ==
  { "if-none-match", "if-modified-since", "last-modified", "etag",
    "content-type", "content-length", "x-powered-by" }

SeqHeaders == { "if-none-match", "etag" }

EmptyHeaders == [n \in HeaderNames |-> IF n \in SeqHeaders THEN NoSeq ELSE NoStr]

----------------------------------------------------------------------------
(* The middleware *)

\* the constructor: strength and algorithm with their defaults
Construct(settings) ==
  [strength |-> IF settings.etag.has /\ settings.etag.val.strength.has
                  THEN settings.etag.val.strength.val ELSE "strong",
   algorithm |-> IF settings.etag.has /\ settings.etag.val.algorithm.has
                   THEN settings.etag.val.algorithm.val ELSE "sha256",
   poweredBy |-> settings.poweredBy,
   subdomainOffset |-> settings.subdomainOffset]

Idle ==
  /\ clientRaw = <<>>
  /\ serverTag = <<>>
  /\ called = {}
  /\ resultPublic = FALSE
  /\ resultEngine = FALSE

Init ==
  /\ \E settings \in Settings : config = Construct(settings)
  /\ \E line \in RequestLines, inm \in IfNoneMatchValues, ims \in IfModifiedSinceValues :
       ctx = [method |-> line.method,
              host |-> line.host,
              subdomains |-> <<>>,
              status |-> 200,
              body |-> NoStr,
              header |-> [EmptyHeaders EXCEPT !["if-none-match"] = inm,
                                              !["if-modified-since"] = ims]]
  /\ clientValidation = [etag |-> NoSeq, modifiedSince |-> NoStr]
  /\ pc = "start"
  /\ serverETag = NoSeq
  /\ request = ctx
  /\ produced = ctx
  /\ Idle

\* the middleware up to await next(): x-powered-by, subdomains, the snapshot
Enter ==
  /\ pc = "start"
  /\ LET powered == IF TruthyStr(config.poweredBy)
                      THEN HeaderSet(ctx.header, "x-powered-by", config.poweredBy.val)
                      ELSE ctx.header
     IN /\ ctx' = [ctx EXCEPT !.header = powered, !.subdomains = getSubdomains(ctx)]
        /\ clientValidation' = [etag |-> HeaderGet(powered, "if-none-match"),
                                modifiedSince |-> HeaderGet(powered, "if-modified-since")]
  /\ pc' = "next"
  /\ UNCHANGED <<config, serverETag, request, produced>>
  /\ UNCHANGED cmpVars

\* await next(): the downstream handlers produce the response
Downstream ==
  /\ pc = "next"
  /\ \E st \in Statuses, b \in Bodies, lm \in LastModifiedValues,
        et \in DownstreamETags, entity \in BOOLEAN, edit \in ValidatorEdits :
       ctx' = [ctx EXCEPT
                 !.status = st,
                 !.body = b,
                 !.header = [ctx.header EXCEPT
                    !["last-modified"] = lm,
                    !["etag"] = et,
                    !["content-type"] = IF entity THEN Some("text/plain") ELSE NoStr,
                    !["content-length"] = IF entity THEN Some("5") ELSE NoStr,
                    !["if-none-match"] =
                       CASE edit = "keep" -> @
                         [] edit = "remove" -> NoSeq
                         [] edit = "replace" -> Some(<<"*">>),
                    !["if-modified-since"] =
                       CASE edit = "keep" -> @
                         [] edit = "remove" -> NoStr
                         [] edit = "replace" -> Some("Thu, 02 Jan 2020 00:00:00 GMT")]]
  /\ produced' = ctx'
  /\ pc' = "after"
  /\ UNCHANGED <<clientValidation, config, serverETag, request>>
  /\ UNCHANGED cmpVars

\* AfterNext that reads the validators from the headers as they are now
AfterNextLive ==
  /\ pc = "after"
  /\ IF shouldProcessValidation(ctx)
       THEN LET r == handleCacheValidation(ctx,
                        [etag |-> HeaderGet(ctx.header, "if-none-match"),
                         modifiedSince |-> HeaderGet(ctx.header, "if-modified-since")])
            IN ctx' = r.ctx /\ serverETag' = Some(r.serverETag)
       ELSE UNCHANGED <<ctx, serverETag>>
  /\ pc' = "done"
  /\ UNCHANGED <<clientValidation, config, request, produced>>
  /\ UNCHANGED cmpVars

\* the middleware after await next(): validate when the response is eligible
AfterNext ==
  /\ pc = "after"
  /\ IF shouldProcessValidation(ctx)
       THEN LET r == handleCacheValidation(ctx, clientValidation)
            IN ctx' = r.ctx /\ serverETag' = Some(r.serverETag)
       ELSE UNCHANGED <<ctx, serverETag>>
  /\ pc' = "done"
  /\ UNCHANGED <<clientValidation, config, request, produced>>
  /\ UNCHANGED cmpVars

Next == Enter \/ Downstream \/ AfterNext

Spec == Init /\ [][Next]_vars

----------------------------------------------------------------------------
(* The comparators on enumerated inputs *)

IdChars == { "a", "b" }

\* identifiers of at most MaxIdLen characters, the empty one included
Ids == UNION { [1..n -> IdChars] : n \in 0..MaxIdLen }

WeakMarkers == { <<>>, <<"W", "/">>, <<"w", "/">> }

\* single tags: quoted with an optional weak marker in either case, bare, or *
Tags ==
  { m \o Quoted(id) : m \in WeakMarkers, id \in Ids } \cup Ids \cup { <<"*">> }

\* list elements as they are written: a tag, or a strong tag after a space
Elements == Tags \cup { <<" ">> \o Quoted(id) : id \in Ids }

\* the raw client value is a list of 1..MaxTags elements
InitCmp ==
  /\ clientRaw \in ListsOf(Elements, MaxTags)
  /\ serverTag \in Tags
  /\ called = {}
  /\ resultPublic = FALSE
  /\ resultEngine = FALSE
  /\ config = Construct(CHOOSE settings \in Settings : ~settings.etag.has)
  /\ ctx = [method |-> "GET", host |-> NoSeq, subdomains |-> <<>>, status |-> 200,
            body |-> NoStr, header |-> EmptyHeaders]
  /\ clientValidation = [etag |-> NoSeq, modifiedSince |-> NoStr]
  /\ pc = "idle"
  /\ serverETag = NoSeq
  /\ request = ctx
  /\ produced = ctx

\* a caller applies the public compareETags
CallCompareETags ==
  /\ pc = "idle"
  /\ "public" \notin called
  /\ resultPublic' = compareETags(clientRaw, serverTag)
  /\ called' = called \cup {"public"}
  /\ UNCHANGED <<clientRaw, serverTag, resultEngine>>
  /\ UNCHANGED engineVars

\* the engine's ETag validation applied to the same header value
CallIfNoneMatchMatches ==
  /\ pc = "idle"
  /\ "engine" \notin called
  /\ resultEngine' = ifNoneMatchMatches(Some(clientRaw), serverTag)
  /\ called' = called \cup {"engine"}
  /\ UNCHANGED <<clientRaw, serverTag, resultPublic>>
  /\ UNCHANGED engineVars

NextCmp == CallCompareETags \/ CallIfNoneMatchMatches

SpecCmp == InitCmp /\ [][NextCmp]_vars

----------------------------------------------------------------------------
(* Vocabulary of the properties *)

Done == pc = "done"

\* the response downstream produced is eligible: GET or HEAD, 2xx, a non-empty
\* body, no etag header
EligibleResponse ==
  /\ produced.method \in {"GET", "HEAD"}
  /\ produced.status >= 200 /\ produced.status < 300
  /\ produced.body.has /\ produced.body.val # ""
  /\ ~produced.header["etag"].has

\* the fingerprint of the finalized body under the configured algorithm and strength
Fingerprint == generateETag(produced.body, config.algorithm, config.strength)

\* the validators as the request arrived with them
ArrivedIfNoneMatch == request.header["if-none-match"]

ArrivedIfModifiedSince == request.header["if-modified-since"]

ProducedLastModified == produced.header["last-modified"]

\* some element of the arrived If-None-Match list matches the fingerprint
ETagMatched ==
  /\ ArrivedIfNoneMatch.has
  /\ anyETagMatches(SplitTrim(ArrivedIfNoneMatch.val), Fingerprint)

\* both dates are there and parse
DatesParse ==
  /\ ProducedLastModified.has
  /\ ArrivedIfModifiedSince.has
  /\ ~DateGetTime(ProducedLastModified.val).nan
  /\ ~DateGetTime(ArrivedIfModifiedSince.val).nan

\* Last-Modified is not later than If-Modified-Since
NotModifiedSince ==
  DateGetTime(ProducedLastModified.val).t <= DateGetTime(ArrivedIfModifiedSince.val).t

\* the response was rewritten to Not Modified (an eligible response is 2xx
\* before validation, so only sendNotModified makes it 304)
OutcomeNotModified == ctx.status = 304

----------------------------------------------------------------------------
(* Properties of the middleware, checked under Spec *)

\* C1: ETag precedence. For an eligible response, when some element of the
\* supplied If-None-Match matches the generated fingerprint the outcome is
\* NotModified, whatever If-Modified-Since and Last-Modified are.
C1_ETagPrecedence ==
  (Done /\ EligibleResponse /\ ETagMatched) => OutcomeNotModified

\* C1 case: the ETag matched while Last-Modified is strictly newer than
\* If-Modified-Since, and the response is 304.
C1_Witness ==
  /\ Done /\ EligibleResponse /\ ETagMatched
  /\ DatesParse /\ ~NotModifiedSince
  /\ OutcomeNotModified

\* C2: Last-Modified fallback. For an eligible response with If-None-Match
\* absent or matching nothing, and both dates present and parsing, the outcome
\* is NotModified exactly when Last-Modified <= If-Modified-Since.
C2_LastModifiedFallback ==
  (Done /\ EligibleResponse /\ ~ETagMatched /\ DatesParse)
    => (OutcomeNotModified <=> NotModifiedSince)

\* C2 case: an If-None-Match that matches nothing, equal timestamps, 304.
C2_Witness ==
  /\ Done /\ EligibleResponse
  /\ ArrivedIfNoneMatch.has /\ Len(ArrivedIfNoneMatch.val) > 0 /\ ~ETagMatched
  /\ DatesParse
  /\ DateGetTime(ProducedLastModified.val).t = DateGetTime(ArrivedIfModifiedSince.val).t
  /\ OutcomeNotModified

\* C3: safe default. The outcome is NotModified only if an If-None-Match
\* element matched or both dates were present, parsed and Last-Modified <=
\* If-Modified-Since; an unparsable date is never a match.
C3_SafeDefault ==
  (Done /\ EligibleResponse /\ OutcomeNotModified)
    => (ETagMatched \/ (DatesParse /\ NotModifiedSince))

\* C3 case: Last-Modified does not parse, If-Modified-Since does, no ETag
\* matched, and the response goes out as produced with its fingerprint.
C3_Witness ==
  /\ Done /\ EligibleResponse /\ ~ETagMatched
  /\ ProducedLastModified.has /\ DateGetTime(ProducedLastModified.val).nan
  /\ ArrivedIfModifiedSince.has /\ ~DateGetTime(ArrivedIfModifiedSince.val).nan
  /\ ~OutcomeNotModified
  /\ serverETag.has

\* the response is ineligible as the claim words it: any etag header counts
IneligibleAsClaimed ==
  \/ produced.method \notin {"GET", "HEAD"}
  \/ produced.status < 200 \/ produced.status >= 300
  \/ ~produced.body.has \/ produced.body.val = ""
  \/ produced.header["etag"].has

\* the response is ineligible: only an etag header with a non-empty value counts
IneligibleNonEmptyETag ==
  \/ produced.method \notin {"GET", "HEAD"}
  \/ produced.status < 200 \/ produced.status >= 300
  \/ ~produced.body.has \/ produced.body.val = ""
  \/ (produced.header["etag"].has /\ Len(produced.header["etag"].val) > 0)

\* C4 as claimed: an ineligible response (wrong method, status outside
\* [200,300), empty or absent body, or an etag header already present) gets no
\* fingerprint and is left exactly as downstream produced it.
C4_IneligibleUntouched_Original ==
  (Done /\ IneligibleAsClaimed) => (~serverETag.has /\ ctx = produced)

\* C4 amended: the same, an etag header counting as present only when its
\* value is non-empty.
C4_IneligibleUntouched ==
  (Done /\ IneligibleNonEmptyETag) => (~serverETag.has /\ ctx = produced)

\* C4 case: a GET, 2xx, non-empty body, a downstream etag header, and a
\* wildcard If-None-Match; the response is left as produced.
C4_Witness ==
  /\ Done
  /\ produced.method = "GET" /\ produced.status = 200 /\ TruthyStr(produced.body)
  /\ TruthySeq(produced.header["etag"])
  /\ ArrivedIfNoneMatch = Some(<<"*">>)
  /\ ctx = produced /\ ~serverETag.has

\* C5: Not-Modified rewrite. Whenever the ETag check or the Last-Modified
\* check decides NotModified, the response ends with status 304, no body, no
\* Content-Type and no Content-Length.
C5_NotModifiedRewrite ==
  (Done /\ EligibleResponse /\ (ETagMatched \/ (DatesParse /\ NotModifiedSince)))
    => /\ ctx.status = 304
       /\ ctx.body = NoStr
       /\ ~ctx.header["content-type"].has
       /\ ~ctx.header["content-length"].has

\* C5 case: downstream set both entity headers, the Last-Modified check
\* decided, and the response is a bare 304.
C5_Witness ==
  /\ Done /\ EligibleResponse /\ ~ETagMatched /\ DatesParse /\ NotModifiedSince
  /\ produced.header["content-type"].has /\ produced.header["content-length"].has
  /\ ctx.status = 304 /\ ~ctx.body.has
  /\ ~ctx.header["content-length"].has

\* C8: validator snapshot. The decision uses If-None-Match and
\* If-Modified-Since as they were before downstream ran, and the eligibility,
\* body and Last-Modified that downstream produced.
C8_SnapshotOrdering ==
  Done =>
    /\ serverETag.has <=> shouldProcessValidation(produced)
    /\ EligibleResponse =>
         /\ serverETag = Some(Fingerprint)
         /\ OutcomeNotModified <=> (ETagMatched \/ (DatesParse /\ NotModifiedSince))

\* C8 case: downstream replaced both validators by ones that would match, the
\* arrived ones match nothing, and the response is not 304.
C8_Witness ==
  /\ Done /\ EligibleResponse
  /\ produced.header["if-none-match"] = Some(<<"*">>)
  /\ produced.header["if-none-match"] # ArrivedIfNoneMatch
  /\ produced.header["if-modified-since"] # ArrivedIfModifiedSince
  /\ ~ETagMatched
  /\ ~OutcomeNotModified

\* C9: unconditional fingerprint. After validation of an eligible response
\* the etag header is the fingerprint of the finalized body, on Continue and
\* on NotModified alike.
C9_FingerprintAttached ==
  (Done /\ EligibleResponse) => ctx.header["etag"] = Some(Fingerprint)

\* C9 case: a 304 that still carries the fingerprint.
C9_Witness ==
  /\ Done /\ EligibleResponse /\ OutcomeNotModified
  /\ ctx.header["etag"] = Some(Fingerprint)

----------------------------------------------------------------------------
(* Properties of the comparators, checked under SpecCmp *)

BothCalled == called = {"public", "engine"}

\* the forms of a quoted tag with identifier x: strong, weak, weak in lower case
TagForms(x) == { Quoted(x), Weak(Quoted(x)), <<"w", "/">> \o Quoted(x) }

\* C6: normalized equality. Both comparators strip a leading W/ in either
\* letter case and the quotes, so a strong and a weak tag with the same
\* identifier match in both directions.
C6_NormalizedEquality ==
  (BothCalled /\ \E x \in Ids : clientRaw \in TagForms(x) /\ serverTag \in TagForms(x))
    => (resultPublic /\ resultEngine)

\* the client value is * or a comma-separated list with an element *
HasWildcardElement(raw) ==
  \/ raw = <<"*">>
  \/ /\ Includes(raw, ",")
     /\ \E i \in 1..Len(SplitTrim(raw)) : SplitTrim(raw)[i] = <<"*">>

\* C7: wildcard and empty input. A client value that is, or whose list
\* contains, the element * matches every server tag, an empty one included; an
\* empty client value matches no server tag.
C7_WildcardAndEmpty ==
  BothCalled =>
    /\ HasWildcardElement(clientRaw) => (resultPublic /\ resultEngine)
    /\ clientRaw = <<>> => (~resultPublic /\ ~resultEngine)

\* C10: the public recursive compareETags and the engine's split, trim and
\* anyETagMatches give the same result for every client value and server tag.
C10_ComparatorsAgree ==
  BothCalled => (resultPublic = resultEngine)

====
